---- MODULE Spec2Model ----
(***************************************************************************)
(* The wait engine of protractor-base-dsl: WaitCondition.check and the     *)
(* WaitCondition / Expectation / Action helpers built on it.               *)
(*                                                                         *)
(* One DSL call is in progress at a time.  A call that waits polls a       *)
(* condition against the page until the condition holds or the timeout of  *)
(* the wait is found elapsed; the page changes at any moment and time      *)
(* passes at any moment.                                                   *)
(*                                                                         *)
(* JavaScript values are encoded as follows: undefined is the empty        *)
(* sequence and a defined value v is <<v>>; a text built by a template     *)
(* literal is the sequence of its pieces.                                  *)
(***************************************************************************)
EXTENDS Integers, Sequences, FiniteSets, TLC

VARIABLES
    defaultExpectationTimeout, \* global.defaultExpectationTimeout
    world,                     \* the page, as the automation client sees it
    now,                       \* time since the call began, in ticks
    call,                      \* the DSL call in progress
    wait,                      \* the browser.wait the call started
    hist,                      \* what the polls of this call observed
    prev                       \* the last call that ended in an error

vars == <<defaultExpectationTimeout, world, now, call, wait, hist, prev>>

\* ---------------------------------------------------------------- bounds
MaxTicks == 3
TickMs == 5000

\* the fallback timeout of WaitCondition.check
DefaultTimeout == 10000

Undefined == <<>>

Selectors == {".item", "#none"}
Texts == {"Hello", "Bye"}
ExpectedTexts == {"Hello"}
ExpectedCounts == {1}
ConfiguredTimeouts == {Undefined, <<TickMs>>}

Worlds == [texts : SUBSET Texts, visible : BOOLEAN, attr : BOOLEAN]

Elapsed == now * TickMs

\* ------------------------------------------------------------ JS helpers
\* a || b
Or(a, b) == IF a = Undefined \/ a = <<0>> THEN b ELSE a

\* `${v}` in a template literal
Str(v) == IF v = Undefined THEN "undefined" ELSE v[1]

\* R.equals on values
REquals(a, b) == a = b

\* the values a click settles with, and what handlers make of them
Values == {"null", "ElementNotInteractableError", "true"}

\* R.T
RT == [x \in Values |-> "true"]

\* promise.then(onFulfilled, onRejected)
Then(p, onFulfilled, onRejected) ==
    IF p.state = "fulfilled"
    THEN [state |-> "fulfilled", value |-> onFulfilled[p.value]]
    ELSE [state |-> "fulfilled", value |-> onRejected[p.value]]

\* promise.then(onFulfilled): a rejection passes through
ThenOnly(p, onFulfilled) ==
    IF p.state = "fulfilled"
    THEN [state |-> "fulfilled", value |-> onFulfilled[p.value]]
    ELSE p

\* ------------------------------------------------------------- selectors
\* what a caller may hand over as a selector
StringSel(css) ==
    [kind |-> "string", css |-> css, filtered |-> FALSE, text |-> Undefined]
UndefinedSel ==
    [kind |-> "undefined", css |-> "", filtered |-> FALSE, text |-> Undefined]
\* element(By.css(css))
CssFinder(css) ==
    [kind |-> "finder", css |-> css, filtered |-> FALSE, text |-> Undefined]
\* element.all(By.css(css)).filter(text equals expectedText).first()
FilteredFinder(css, expectedText) ==
    [kind |-> "finder", css |-> css, filtered |-> TRUE, text |-> expectedText]

\* ElementUtil.elementFinder: a string is looked up by CSS, anything else is
\* taken to be an element finder already
elementFinder(selector) ==
    IF selector.kind = "string" THEN CssFinder(selector.css) ELSE selector

\* ElementFinder.locator(), as printed in a template literal
locator(finder) == <<"By(css selector, ", finder.css, ")">>

\* the texts of the elements a finder resolves to on the page
Elements(finder, w) ==
    LET all == IF finder.css = ".item" THEN w.texts ELSE {}
    IN  IF finder.filtered
        THEN {t \in all : REquals(<<t>>, finder.text)}
        ELSE all

\* ------------------------------------------------------------ conditions
Cond(op, neg, css, n) == [op |-> op, neg |-> neg, css |-> css, n |-> n]

Condition_present == Cond("present", FALSE, "", 0)
Condition_displayed == Cond("displayed", FALSE, "", 0)
Condition_not(c) == [c EXCEPT !.neg = ~c.neg]
Condition_count(css, n) == Cond("count", FALSE, css, n)

\* a condition applied to an element finder on the page
Holds(c, finder, w) ==
    LET v == CASE c.op = "present" -> Elements(finder, w) # {}
               [] c.op = "displayed" -> Elements(finder, w) # {} /\ w.visible
               [] c.op = "count" ->
                      Cardinality(Elements(CssFinder(c.css), w)) = c.n
               [] c.op = "presentAndHasAttr" ->
                      Elements(finder, w) # {} /\ w.attr
    IN  IF c.neg THEN ~v ELSE v

\* ------------------------------------------------------------ browser.wait
NoError == [kind |-> "none", text |-> <<>>]
TypeError == [kind |-> "TypeError", text |-> <<"Cannot read property 'locator' of undefined">>]
TimeoutError(description) ==
    [kind |-> "TimeoutError", text |-> description \o <<"Wait timed out">>]

NoWait ==
    [kind |-> "none", description |-> <<>>, cond |-> Condition_present,
     selector |-> UndefinedSel, finder |-> UndefinedSel, timeout |-> 0,
     pollValue |-> FALSE]

\* browser.wait(condition, timeout, message): an undefined timeout is 0, and
\* a timeout of 0 never expires
browser_wait(kind, description, cond, selector, finder, timeout) ==
    [kind |-> kind, description |-> description, cond |-> cond,
     selector |-> selector, finder |-> finder,
     timeout |-> Or(timeout, <<0>>)[1], pollValue |-> FALSE]

Started(w) == [threw |-> FALSE, error |-> NoError, wait |-> w]
Thrown(e) == [threw |-> TRUE, error |-> e, wait |-> NoWait]

\* ------------------------------------------------------- WaitCondition.check
\* the mutant of checkCond: the condition is applied negated
checkCondNegated(condition, selector, w) ==
    ~Holds(condition, elementFinder(selector), w)

\* () => condition(finder())
checkCond(condition, selector, w) ==
    Holds(condition, elementFinder(selector), w)

check(message, condition, selector) ==
    LET finder == elementFinder(selector)
    IN  IF finder.kind = "undefined"
        THEN Thrown(TypeError)
        ELSE Started(browser_wait(
                 "check",
                 message \o <<". Selector: ">> \o locator(finder),
                 condition, selector, finder,
                 <<Or(defaultExpectationTimeout, <<DefaultTimeout>>)[1]>>))

\* --------------------------------------------------- WaitCondition methods
Msg_displayed == <<"For element to be displayed">>
Msg_notDisplayed == <<"For element to be displayed">>
Msg_present == <<"For element to be present">>
Msg_notPresent == <<"For element to be absent">>
Msg_presentWithText(expectedText) ==
    <<"For element having text ", Str(expectedText), " to be present">>
Msg_count(expectedCount) ==
    <<"for element's count to be '", ToString(expectedCount), "'">>

WaitCondition_displayed(selector) ==
    check(Msg_displayed, Condition_displayed, selector)

WaitCondition_notDisplayed(selector) ==
    check(Msg_notDisplayed, Condition_not(Condition_displayed), selector)

WaitCondition_present(selector) ==
    check(Msg_present, Condition_present, selector)

WaitCondition_notPresent(selector) ==
    check(Msg_notPresent, Condition_not(Condition_present), selector)

WaitCondition_presentWithText(selector, expectedText) ==
    check(Msg_presentWithText(expectedText), Condition_present,
          FilteredFinder(selector.css, expectedText))

\* the selector is not handed on to check
WaitCondition_count(selector, expectedCount) ==
    check(Msg_count(expectedCount),
          Condition_count(selector.css, expectedCount), UndefinedSel)

\* ------------------------------------------------------ Expectation methods
\* checkPresenceAndCondition: the timeout is the global as it is
checkPresenceAndCondition(selector, condition) ==
    Started(browser_wait("presenceAnd", <<>>, condition, selector,
                         elementFinder(selector), defaultExpectationTimeout))

Expectation_hasAttribute(selector) ==
    checkPresenceAndCondition(selector, Cond("presentAndHasAttr", FALSE, "", 0))

\* Expectation.condition: the timeout is the global as it is
Expectation_condition(conditionFunction, message) ==
    Started(browser_wait("condition", message, conditionFunction, UndefinedSel,
                         UndefinedSel, defaultExpectationTimeout))

Expectation_count(selector, expectedCount) ==
    Expectation_condition(Condition_count(selector.css, expectedCount), <<>>)

\* the text of the caller is not a parameter: WaitCondition.presentWithText
\* is called with the selector alone
Expectation_presentWithText(selector) ==
    WaitCondition_presentWithText(selector, Undefined)

Expectation_displayed(selector) == WaitCondition_displayed(selector)

Expectation_notDisplayed(selector) == WaitCondition_notDisplayed(selector)

\* ---------------------------------------------------------- Action methods
\* ElementFinder.click()
click(finder, w) ==
    IF Elements(finder, w) # {} /\ w.visible
    THEN [state |-> "fulfilled", value |-> "null"]
    ELSE [state |-> "rejected", value |-> "ElementNotInteractableError"]

\* the mutant of clickIfClickableTask: only the success is mapped to true
clickIfClickableTaskNoCatch(finder, w) == ThenOnly(click(finder, w), RT)

\* () => finder.click().then(R.T, R.T)
clickIfClickableTask(finder, w) == Then(click(finder, w), RT, RT)

\* ------------------------------------------------------------------ state
WaitConditionMethods ==
    {"WaitCondition.displayed", "WaitCondition.notDisplayed",
     "WaitCondition.present", "WaitCondition.notPresent",
     "WaitCondition.presentWithText", "WaitCondition.count"}

ExpectationMethods ==
    {"Expectation.displayed", "Expectation.notDisplayed",
     "Expectation.presentWithText", "Expectation.count",
     "Expectation.hasAttribute"}

Pending == {"waiting", "evaluating", "scheduled"}
Finished == {"resolved", "failed", "threw"}

Idle ==
    [pc |-> "idle", method |-> "none", css |-> "", text |-> Undefined, n |-> 0,
     error |-> NoError, value |-> "undefined"]

NoHist ==
    [polled |-> FALSE, sawTrue |-> FALSE, sawTrueInTime |-> FALSE,
     sawFalse |-> FALSE, sawText |-> FALSE, resolved |-> FALSE,
     failed |-> FALSE, clicked |-> "none"]

NoPrev == [method |-> "none", css |-> "", text |-> <<>>]

\* what a poll that starts now observes: the truth of the condition of the
\* wait, whether the poll starts before the timeout has elapsed, and whether
\* an element matching the selector of the caller has the text of the caller
Observe(h, wt, c) ==
    LET truth == Holds(wt.cond, wt.finder, world)
        inTime == wt.timeout = 0 \/ Elapsed < wt.timeout
    IN  [h EXCEPT !.polled = TRUE,
                  !.sawTrue = @ \/ truth,
                  !.sawTrueInTime = @ \/ (truth /\ inTime),
                  !.sawFalse = @ \/ ~truth,
                  !.sawText = @ \/ (\E t \in Elements(CssFinder(c.css), world) :
                                        REquals(<<t>>, c.text))]

\* the value the condition handed to browser.wait yields on the page
PollValue(wt) ==
    IF wt.kind = "check"
    THEN checkCond(wt.cond, wt.selector, world)
    ELSE Holds(wt.cond, wt.finder, world)

Init ==
    /\ defaultExpectationTimeout \in ConfiguredTimeouts
    /\ world \in Worlds
    /\ now = 0
    /\ call = Idle
    /\ wait = NoWait
    /\ hist = NoHist
    /\ prev = NoPrev

\* the call runs up to browser.wait, which makes its first poll at once, or
\* throws before it gets there
Begin(c, r) ==
    IF r.threw
    THEN /\ call' = [c EXCEPT !.pc = "threw", !.error = r.error]
         /\ UNCHANGED <<wait, hist>>
    ELSE /\ call' = [c EXCEPT !.pc = "evaluating"]
         /\ wait' = [r.wait EXCEPT !.pollValue = PollValue(r.wait)]
         /\ hist' = Observe(hist, r.wait, c)

WaitConditionCall(m, selector, text, n) ==
    CASE m = "WaitCondition.displayed" -> WaitCondition_displayed(selector)
      [] m = "WaitCondition.notDisplayed" -> WaitCondition_notDisplayed(selector)
      [] m = "WaitCondition.present" -> WaitCondition_present(selector)
      [] m = "WaitCondition.notPresent" -> WaitCondition_notPresent(selector)
      [] m = "WaitCondition.presentWithText" ->
             WaitCondition_presentWithText(selector, text)
      [] m = "WaitCondition.count" -> WaitCondition_count(selector, n)

ExpectationCall(m, selector, n) ==
    CASE m = "Expectation.displayed" -> Expectation_displayed(selector)
      [] m = "Expectation.notDisplayed" -> Expectation_notDisplayed(selector)
      [] m = "Expectation.presentWithText" -> Expectation_presentWithText(selector)
      [] m = "Expectation.count" -> Expectation_count(selector, n)
      [] m = "Expectation.hasAttribute" -> Expectation_hasAttribute(selector)

\* the text and the count a method takes from its caller
TextOf(m, text) ==
    IF m \in {"WaitCondition.presentWithText", "Expectation.presentWithText"}
    THEN text ELSE Undefined
CountOf(m, n) ==
    IF m \in {"WaitCondition.count", "Expectation.count"} THEN n ELSE 0

\* a test calls a WaitCondition method
CallWaitCondition ==
    /\ call.pc = "idle"
    /\ \E m \in WaitConditionMethods, css \in Selectors,
          text \in ExpectedTexts, n \in ExpectedCounts :
          Begin([Idle EXCEPT !.method = m, !.css = css,
                             !.text = TextOf(m, <<text>>), !.n = CountOf(m, n)],
                WaitConditionCall(m, StringSel(css), <<text>>, n))
    /\ UNCHANGED <<defaultExpectationTimeout, world, now, prev>>

\* a test calls an Expectation method, and its action is executed
CallExpectation ==
    /\ call.pc = "idle"
    /\ \E m \in ExpectationMethods, css \in Selectors,
          text \in ExpectedTexts, n \in ExpectedCounts :
          Begin([Idle EXCEPT !.method = m, !.css = css,
                             !.text = TextOf(m, <<text>>), !.n = CountOf(m, n)],
                ExpectationCall(m, StringSel(css), n))
    /\ UNCHANGED <<defaultExpectationTimeout, world, now, prev>>

\* a test calls Action.clickIfClickable: the click is scheduled, no wait is
CallClickIfClickable ==
    /\ call.pc = "idle"
    /\ \E css \in Selectors :
          call' = [Idle EXCEPT !.pc = "scheduled",
                               !.method = "Action.clickIfClickable", !.css = css]
    /\ UNCHANGED <<defaultExpectationTimeout, world, now, wait, hist, prev>>

\* the scheduled click is executed
ExecuteClick ==
    /\ call.pc = "scheduled"
    /\ LET finder == elementFinder(StringSel(call.css))
           result == clickIfClickableTask(finder, world)
       IN  /\ call' = [call EXCEPT
                          !.pc = IF result.state = "fulfilled"
                                 THEN "resolved" ELSE "failed",
                          !.value = result.value]
           /\ hist' = [hist EXCEPT !.clicked = click(finder, world).state]
    /\ UNCHANGED <<defaultExpectationTimeout, world, now, wait, prev>>

\* the next poll of a wait begins: the condition is evaluated on the page
PollStart ==
    /\ call.pc = "waiting"
    /\ wait' = [wait EXCEPT !.pollValue = PollValue(wait)]
    /\ hist' = Observe(hist, wait, call)
    /\ call' = [call EXCEPT !.pc = "evaluating"]
    /\ UNCHANGED <<defaultExpectationTimeout, world, now, prev>>

\* a poll ends: a true value resolves the wait; otherwise a timeout that is
\* not 0 and has elapsed fails it; otherwise another poll is scheduled
PollEnd ==
    /\ call.pc = "evaluating"
    /\ IF wait.pollValue
       THEN /\ call' = [call EXCEPT !.pc = "resolved", !.value = "true"]
            /\ hist' = [hist EXCEPT !.resolved = TRUE]
       ELSE IF wait.timeout # 0 /\ Elapsed >= wait.timeout
       THEN /\ call' = [call EXCEPT !.pc = "failed",
                                    !.error = TimeoutError(wait.description)]
            /\ hist' = [hist EXCEPT !.failed = TRUE]
       ELSE /\ call' = [call EXCEPT !.pc = "waiting"]
            /\ UNCHANGED hist
    /\ UNCHANGED <<defaultExpectationTimeout, world, now, wait, prev>>

\* time passes
Tick ==
    /\ call.pc \in Pending
    /\ now < MaxTicks
    /\ now' = now + 1
    /\ UNCHANGED <<defaultExpectationTimeout, world, call, wait, hist, prev>>

\* the page changes
BrowserChange ==
    /\ call.pc \in Pending
    /\ world' \in Worlds \ {world}
    /\ UNCHANGED <<defaultExpectationTimeout, now, call, wait, hist, prev>>

\* the call is over; the test goes on to its next call
Return ==
    /\ call.pc \in Finished
    /\ prev' = IF call.pc \in {"failed", "threw"}
               THEN [method |-> call.method, css |-> call.css,
                     text |-> call.error.text]
               ELSE prev
    /\ call' = Idle
    /\ wait' = NoWait
    /\ hist' = NoHist
    /\ now' = 0
    /\ UNCHANGED <<defaultExpectationTimeout, world>>

Next ==
    \/ CallWaitCondition
    \/ CallExpectation
    \/ CallClickIfClickable
    \/ ExecuteClick
    \/ PollStart
    \/ PollEnd
    \/ Tick
    \/ BrowserChange
    \/ Return

Spec == Init /\ [][Next]_vars

\* ----------------------------------------------------------------- claims
\* text carries part at its head
Carries(text, part) ==
    Len(text) >= Len(part) /\ SubSeq(text, 1, Len(part)) = part

\* the message a WaitCondition method waits with
MessageOf(c) ==
    CASE c.method = "WaitCondition.displayed" -> Msg_displayed
      [] c.method = "WaitCondition.notDisplayed" -> Msg_notDisplayed
      [] c.method = "WaitCondition.present" -> Msg_present
      [] c.method = "WaitCondition.notPresent" -> Msg_notPresent
      [] c.method = "WaitCondition.presentWithText" -> Msg_presentWithText(c.text)
      [] c.method = "WaitCondition.count" -> Msg_count(c.n)

\* the timeout every wait is said to have
ClaimedTimeout == Or(defaultExpectationTimeout, <<DefaultTimeout>>)[1]

C2_EveryWaitFinishes ==
    [][(call.pc = "evaluating" /\ call'.pc = "waiting")
           => Elapsed < ClaimedTimeout]_vars

C5_ClickIfClickableYieldsTrue ==
    (call.method = "Action.clickIfClickable" /\ call.pc \in Finished)
        => /\ call.pc = "resolved"
           /\ call.value = "true"
           /\ hist.clicked \in {"fulfilled", "rejected"}
           /\ ~hist.polled
           /\ wait = NoWait

\* C5, witness: clickIfClickable is over and its click was rejected
C5_Witness ==
    /\ call.method = "Action.clickIfClickable"
    /\ call.pc = "resolved"
    /\ hist.clicked = "rejected"

\* C6: Expectation.presentWithText succeeds only when a poll found an element
\* matching the selector with the text its caller specified, and fails on
\* timeout only when no poll found one.
C6_PresentWithTextFindsTheText ==
    call.method = "Expectation.presentWithText" =>
        /\ call.pc = "resolved" => hist.sawText
        /\ call.pc = "failed" => ~hist.sawText

\* C7: WaitCondition.displayed and WaitCondition.notDisplayed never fail with
\* the same message text for the same selector.
C7_DisplayedAndNotDisplayedDiffer ==
    ( /\ call.pc = "failed"
      /\ {call.method, prev.method}
             = {"WaitCondition.displayed", "WaitCondition.notDisplayed"}
      /\ call.css = prev.css )
        => call.error.text # prev.text

====
